---- MODULE Spec2Model ----
(***************************************************************************)
(* A model of the three task stores of queue_task.py: TaskQueue_list,      *)
(* TaskQueue_dict_of_lists and TaskQueue_dict_of_dicts.  The three stores  *)
(* are driven in lockstep by the same add_task / get_task calls, as        *)
(* performance_test.py feeds one task list to each class.                  *)
(*                                                                         *)
(* A Task is the record [id, priority, resources, seq].  The fields        *)
(* content and result are always '' (performance_test.task_generator) and  *)
(* take no part in any store operation; they are left out.  seq is a       *)
(* history field: the number of the add_task call that submitted the       *)
(* record.  It stands for the identity of the Python object; no store      *)
(* operation reads it (TaskEq, the dataclass __eq__, ignores it).          *)
(***************************************************************************)
EXTENDS Integers, Sequences, FiniteSets, TLC

VARIABLES lst, dol, dod, log, returned, ret, pre, dup, phase, start, outs, thr

vars == <<lst, dol, dod, log, returned, ret, pre, dup, phase, start, outs, thr>>

(***************************************************************************)
(* Bounds of the model.                                                    *)
(***************************************************************************)
MaxPri == 2
MaxAdds == 3
MaxOps == 4
MaxFill == 3
MaxRes == 1

\* The ids a producer passes.  The stores use an id only as a dict key and in
\* the dataclass __eq__: what matters is which ids are equal and their order.
Ids == {1, 2}
Pris == 1 .. MaxPri

Res(r, c, g) == [ram |-> r, cpu_cores |-> c, gpu_count |-> g]

\* Costs of the submitted tasks: two vectors, neither of which fits the other.
TaskRes == {Res(2, 1, 1), Res(1, 2, 1)}

\* Consumer capacities: one that nothing fits, one that only the ram-heavy
\* cost fits, one that every cost fits.
AvailRes == {Res(1, 1, 1), Res(2, 1, 1), Res(2, 2, 2)}

FullRes == Res(2, 2, 2)

\* Python's None, the value of a function that falls off its end.
None == [none |-> TRUE]

\* The comparison with < for <= in its last conjunct.
Le_strictGpu(self, other) ==
    /\ self.ram <= other.ram
    /\ self.cpu_cores <= other.cpu_cores
    /\ self.gpu_count < other.gpu_count

\* The comparison with "or" for "and".
Le_anyComponent(self, other) ==
    \/ self.ram <= other.ram
    \/ self.cpu_cores <= other.cpu_cores
    \/ self.gpu_count <= other.gpu_count

\* The comparison with two of its three conjuncts lost.
Le_ramOnly(self, other) == self.ram <= other.ram

(***************************************************************************)
(* Resources.__le__                                                        *)
(***************************************************************************)
Le(self, other) ==
    /\ self.ram <= other.ram
    /\ self.cpu_cores <= other.cpu_cores
    /\ self.gpu_count <= other.gpu_count

\* The __eq__ that @dataclass generates for Task (and Resources): fieldwise.
TaskEq(a, b) ==
    /\ a.id = b.id
    /\ a.priority = b.priority
    /\ a.resources = b.resources

\* A remove that leaves the list as it is (it worked on a copy).
ListRemove_nothing(s, v) == s

\* list.pop() in the place of list.remove(v): deletes the last element.
ListRemove_pop(s, v) == SubSeq(s, 1, Len(s) - 1)

\* list.remove(v): deletes the first element equal to v.
ListRemove(s, v) ==
    LET hits == {i \in 1 .. Len(s) : TaskEq(s[i], v)}
        i == CHOOSE k \in hits : \A j \in hits : k <= j
    IN  SubSeq(s, 1, i - 1) \o SubSeq(s, i + 1, Len(s))

\* list(filter(condition, storage)) with condition = x.resources <= available
FilterFits(storage, available) ==
    SelectSeq(storage, LAMBDA x : Le(x.resources, available))

\* An unstable insertion: x goes before the elements of equal key.
InsertByPriority_unstable(s, x) ==
    LET n == Cardinality({i \in 1 .. Len(s) : s[i].priority < x.priority})
    IN  SubSeq(s, 1, n) \o <<x>> \o SubSeq(s, n + 1, Len(s))

\* Position of x in the sorted list s that keeps the sort stable: after every
\* element whose key is <= the key of x.
InsertByPriority(s, x) ==
    LET n == Cardinality({i \in 1 .. Len(s) : s[i].priority <= x.priority})
    IN  SubSeq(s, 1, n) \o <<x>> \o SubSeq(s, n + 1, Len(s))

RECURSIVE SortByPriority(_)
\* list.sort(key=attrgetter('priority')): ascending and stable.
SortByPriority(s) ==
    IF s = <<>> THEN <<>>
    ELSE InsertByPriority(SortByPriority(SubSeq(s, 1, Len(s) - 1)), s[Len(s)])

(***************************************************************************)
(* TaskQueue_list                                                          *)
(***************************************************************************)
List_add_task(storage, new_task) == Append(storage, new_task)

\* get_task without the storage.remove(task_to_return).
List_get_task_keep(storage, available) ==
    LET filtered_tasks == SortByPriority(FilterFits(storage, available))
    IN  IF Len(filtered_tasks) > 0
        THEN [storage |-> storage, result |-> filtered_tasks[1]]
        ELSE [storage |-> storage, result |-> None]

List_get_task(storage, available) ==
    LET filtered_tasks == SortByPriority(FilterFits(storage, available))
    IN  IF Len(filtered_tasks) > 0
        THEN [storage |-> ListRemove(storage, filtered_tasks[1]),
              result  |-> filtered_tasks[1]]
        ELSE [storage |-> storage, result |-> None]

RECURSIVE SortedSeq_desc(_)
\* The keys in descending order: sorted(..., reverse=True).
SortedSeq_desc(S) ==
    IF S = {} THEN <<>>
    ELSE LET m == CHOOSE k \in S : \A j \in S : k >= j
         IN  <<m>> \o SortedSeq_desc(S \ {m})

(***************************************************************************)
(* sorted(self.storage.keys()): the keys of a dict in ascending order.     *)
(***************************************************************************)
RECURSIVE SortedSeq(_)
SortedSeq(S) ==
    IF S = {} THEN <<>>
    ELSE LET m == CHOOSE k \in S : \A j \in S : k <= j
         IN  <<m>> \o SortedSeq(S \ {m})

SortedKeys(storage) == SortedSeq(DOMAIN storage)

(***************************************************************************)
(* TaskQueue_dict_of_lists: storage is a defaultdict(list), modelled as a  *)
(* function from the keys created so far to sequences of tasks.            *)
(***************************************************************************)
\* insert(0, new_task) in the place of append(new_task).
DoL_add_task_front(storage, new_task) ==
    LET p == new_task.priority
    IN  IF p \in DOMAIN storage
        THEN [storage EXCEPT ![p] = <<new_task>> \o @]
        ELSE [k \in DOMAIN storage \cup {p} |->
                 IF k = p THEN <<new_task>> ELSE storage[k]]

DoL_add_task(storage, new_task) ==
    LET p == new_task.priority
    IN  IF p \in DOMAIN storage
        THEN [storage EXCEPT ![p] = Append(@, new_task)]
        ELSE [k \in DOMAIN storage \cup {p} |->
                 IF k = p THEN <<new_task>> ELSE storage[k]]

\* Index of the first task of the bucket whose resources fit, 0 if none.
FirstFit(bucket, available) ==
    LET hits == {i \in 1 .. Len(bucket) : Le(bucket[i].resources, available)}
    IN  IF hits = {} THEN 0 ELSE CHOOSE k \in hits : \A j \in hits : k <= j

RECURSIVE DoL_scan_prune(_, _, _)
\* The scan with a clean-up: a bucket emptied by the removal is deleted.
DoL_scan_prune(storage, keys, available) ==
    IF keys = <<>> THEN [storage |-> storage, result |-> None]
    ELSE LET priority == Head(keys)
             i == FirstFit(storage[priority], available)
         IN  IF i > 0
             THEN LET curtask == storage[priority][i]
                      rest == ListRemove(storage[priority], curtask)
                  IN  [storage |->
                          IF rest = <<>>
                          THEN [k \in DOMAIN storage \ {priority} |-> storage[k]]
                          ELSE [storage EXCEPT ![priority] = rest],
                       result  |-> curtask]
             ELSE DoL_scan_prune(storage, Tail(keys), available)

\* The scan with a return after the first bucket, fitting record or not.
DoL_scan_firstBucket(storage, keys, available) ==
    IF keys = <<>> THEN [storage |-> storage, result |-> None]
    ELSE LET priority == Head(keys)
             i == FirstFit(storage[priority], available)
         IN  IF i > 0
             THEN LET curtask == storage[priority][i]
                  IN  [storage |-> [storage EXCEPT ![priority] = ListRemove(@, curtask)],
                       result  |-> curtask]
             ELSE [storage |-> storage, result |-> None]

RECURSIVE DoL_scan(_, _, _)
DoL_scan(storage, keys, available) ==
    IF keys = <<>> THEN [storage |-> storage, result |-> None]
    ELSE LET priority == Head(keys)
             i == FirstFit(storage[priority], available)
         IN  IF i > 0
             THEN LET curtask == storage[priority][i]
                  IN  [storage |-> [storage EXCEPT ![priority] = ListRemove(@, curtask)],
                       result  |-> curtask]
             ELSE DoL_scan(storage, Tail(keys), available)

DoL_get_task(storage, available) ==
    DoL_scan(storage, SortedKeys(storage), available)

(***************************************************************************)
(* TaskQueue_dict_of_dicts: storage is a defaultdict(dict).  An inner dict *)
(* is modelled as the sequence of its [key, value] items in the order the  *)
(* dict iterates them: insertion order of the keys.                        *)
(***************************************************************************)
DictKeys(d) == {d[i].key : i \in 1 .. Len(d)}

\* A present key is deleted and put at the end with the new value.
DictSet_moveToEnd(d, k, v) ==
    Append(SelectSeq(d, LAMBDA e : e.key # k), [key |-> k, value |-> v])

\* A new key put in front of the present ones.
DictSet_front(d, k, v) ==
    IF k \in DictKeys(d)
    THEN [i \in 1 .. Len(d) |-> IF d[i].key = k THEN [key |-> k, value |-> v] ELSE d[i]]
    ELSE <<[key |-> k, value |-> v]>> \o d

\* d[k] = v: a present key keeps its place and gets the new value, a new
\* key goes to the end.
DictSet(d, k, v) ==
    IF k \in DictKeys(d)
    THEN [i \in 1 .. Len(d) |-> IF d[i].key = k THEN [key |-> k, value |-> v] ELSE d[i]]
    ELSE Append(d, [key |-> k, value |-> v])

\* A del that deletes nothing.
DictDel_nothing(d, k) == d

\* del d[k]
DictDel(d, k) == SelectSeq(d, LAMBDA e : e.key # k)

\* The two keys swapped: storage[new_task.id][new_task.priority] = new_task
DoD_add_task_swapped(storage, new_task) ==
    LET p == new_task.id
    IN  IF p \in DOMAIN storage
        THEN [storage EXCEPT ![p] = DictSet(@, new_task.priority, new_task)]
        ELSE [k \in DOMAIN storage \cup {p} |->
                 IF k = p THEN DictSet(<<>>, new_task.priority, new_task) ELSE storage[k]]

DoD_add_task(storage, new_task) ==
    LET p == new_task.priority
    IN  IF p \in DOMAIN storage
        THEN [storage EXCEPT ![p] = DictSet(@, new_task.id, new_task)]
        ELSE [k \in DOMAIN storage \cup {p} |->
                 IF k = p THEN DictSet(<<>>, new_task.id, new_task) ELSE storage[k]]

\* The items visited in the order of their keys: the fitting item of least key.
FirstFitItem_minKey(items, available) ==
    LET hits == {i \in 1 .. Len(items) : Le(items[i].value.resources, available)}
    IN  IF hits = {} THEN 0
        ELSE CHOOSE k \in hits : \A j \in hits : items[k].key <= items[j].key

FirstFitItem(items, available) ==
    LET hits == {i \in 1 .. Len(items) : Le(items[i].value.resources, available)}
    IN  IF hits = {} THEN 0 ELSE CHOOSE k \in hits : \A j \in hits : k <= j

RECURSIVE DoD_scan(_, _, _)
DoD_scan(storage, keys, available) ==
    IF keys = <<>> THEN [storage |-> storage, result |-> None]
    ELSE LET priority == Head(keys)
             i == FirstFitItem(storage[priority], available)
         IN  IF i > 0
             THEN LET id == storage[priority][i].key
                      curtask == storage[priority][i].value
                  IN  [storage |-> [storage EXCEPT ![priority] = DictDel(@, id)],
                       result  |-> curtask]
             ELSE DoD_scan(storage, Tail(keys), available)

DoD_get_task(storage, available) ==
    DoD_scan(storage, SortedKeys(storage), available)

(***************************************************************************)
(* Views of the stores used by the properties.                             *)
(***************************************************************************)
Range(s) == {s[i] : i \in 1 .. Len(s)}

RECURSIVE Concat(_, _)
\* The buckets of f, taken in the order of the sequence keys, end to end.
Concat(f, keys) ==
    IF keys = <<>> THEN <<>> ELSE f[Head(keys)] \o Concat(f, Tail(keys))

Values(d) == [i \in 1 .. Len(d) |-> d[i].value]

\* The resident records of each store, as a sequence.
ListResident(storage) == storage
DoLResident(storage) == Concat(storage, SortedKeys(storage))
DoDResident(storage) ==
    Concat([k \in DOMAIN storage |-> Values(storage[k])], SortedKeys(storage))

IdsOf(s) == {s[i].id : i \in 1 .. Len(s)}

(***************************************************************************)
(* The state.  lst, dol, dod are the storage of one instance of each       *)
(* class.  The other variables record the history of the calls:            *)
(*   log       the records passed to add_task, in call order               *)
(*   returned  per store, the records get_task returned, in call order     *)
(*   ret       the last call: its name, its argument, its three results    *)
(*   pre       the three storages before the last call                     *)
(*   dup       some add_task so far reused the id of a resident record     *)
(*   phase, start, outs   the drain run of SpecDrain                       *)
(*   thr       the two consumer threads of SpecConc                        *)
(***************************************************************************)
Stores == [lst |-> lst, dol |-> dol, dod |-> dod]

Empty == [k \in {} |-> <<>>]

Threads == {1, 2}

\* No thread is inside a get_task call.  atomic tells whether the callers
\* run each call as one step (the sequential use the stores are written for).
IdleThreads(atomic) ==
    [atomic |-> atomic,
     call   |-> [t \in Threads |->
                   [pc |-> "idle", available |-> None, filtered |-> <<>>, task |-> None]]]

InitStores ==
    /\ lst = <<>>
    /\ dol = Empty
    /\ dod = Empty
    /\ log = <<>>
    /\ returned = [lst |-> <<>>, dol |-> <<>>, dod |-> <<>>]
    /\ ret = [op |-> "init", arg |-> None, res |-> [lst |-> None, dol |-> None, dod |-> None]]
    /\ pre = [lst |-> <<>>, dol |-> Empty, dod |-> Empty]
    /\ dup = FALSE
    /\ phase = "fill"
    /\ start = [lst |-> <<>>, dol |-> Empty, dod |-> Empty]
    /\ outs = <<>>

Init == InitStores /\ thr = IdleThreads(TRUE)

NewTask(id, priority, resources) ==
    [id |-> id, priority |-> priority, resources |-> resources, seq |-> Len(log) + 1]

IsResidentId(id) ==
    \/ id \in IdsOf(ListResident(lst))
    \/ id \in IdsOf(DoLResident(dol))
    \/ id \in IdsOf(DoDResident(dod))

\* One add_task(new_task) call on each of the three stores.
DoAdd(new_task) ==
    /\ lst' = List_add_task(lst, new_task)
    /\ dol' = DoL_add_task(dol, new_task)
    /\ dod' = DoD_add_task(dod, new_task)
    /\ log' = Append(log, new_task)
    /\ ret' = [op |-> "add", arg |-> new_task,
               res |-> [lst |-> None, dol |-> None, dod |-> None]]
    /\ pre' = Stores
    /\ dup' = (dup \/ IsResidentId(new_task.id))
    /\ UNCHANGED <<returned, thr>>

Push(s, r) == IF r = None THEN s ELSE Append(s, r)

\* One get_task(available) call on each of the three stores.
DoGet(available) ==
    LET a == List_get_task(lst, available)
        b == DoL_get_task(dol, available)
        c == DoD_get_task(dod, available)
    IN  /\ lst' = a.storage
        /\ dol' = b.storage
        /\ dod' = c.storage
        /\ ret' = [op |-> "get", arg |-> available,
                   res |-> [lst |-> a.result, dol |-> b.result, dod |-> c.result]]
        /\ returned' = [lst |-> Push(returned.lst, a.result),
                        dol |-> Push(returned.dol, b.result),
                        dod |-> Push(returned.dod, c.result)]
        /\ pre' = Stores
        /\ UNCHANGED <<log, dup, thr>>

\* A producer submits any record: the stores check nothing.
AddTask ==
    /\ phase = "fill"
    /\ Len(log) < MaxAdds
    /\ Len(log) + Len(returned.lst) < MaxOps
    /\ \E id \in Ids, priority \in Pris, resources \in TaskRes :
          DoAdd(NewTask(id, priority, resources))
    /\ UNCHANGED <<phase, start, outs>>

\* A consumer asks for a task.
GetTask ==
    /\ phase = "fill"
    /\ Len(log) + Len(returned.lst) < MaxOps
    /\ \E available \in AvailRes : DoGet(available)
    /\ UNCHANGED <<phase, start, outs>>

Next == AddTask \/ GetTask

Spec == Init /\ [][Next]_vars

(***************************************************************************)
(* SpecDrain: the producer of performance_test.py fills the stores with    *)
(* generated tasks (task_generator takes each id from the counter genid,   *)
(* so the ids are distinct), a consumer may withdraw some, and then a      *)
(* consumer whose capacity every cost fits empties the stores, asking one  *)
(* more time than there are records.                                       *)
(***************************************************************************)
\* next(genid): itertools.count(), one value per generated task.
genid == Len(log) + 1

Submit ==
    /\ phase = "fill"
    /\ Len(log) < MaxFill
    /\ \E priority \in Pris, resources \in TaskRes :
          DoAdd(NewTask(genid, priority, resources))
    /\ UNCHANGED <<phase, start, outs>>

Withdraw ==
    /\ phase = "fill"
    /\ \E available \in AvailRes : DoGet(available)
    /\ UNCHANGED <<phase, start, outs>>

StartDrain ==
    /\ phase = "fill"
    /\ phase' = "drain"
    /\ start' = Stores
    /\ UNCHANGED <<lst, dol, dod, log, returned, ret, pre, dup, outs, thr>>

Drain ==
    /\ phase = "drain"
    /\ Len(outs) <= Len(start.lst)
    /\ DoGet(FullRes)
    /\ outs' = Append(outs, ret'.res)
    /\ UNCHANGED <<phase, start>>

NextDrain == Submit \/ Withdraw \/ StartDrain \/ Drain

SpecDrain == Init /\ [][NextDrain]_vars

(***************************************************************************)
(* Vocabulary of the properties.                                           *)
(***************************************************************************)
StoreNames == {"lst", "dol", "dod"}

\* The resident records of store s of the storages st, as a sequence.
ResidentIn(st, s) ==
    CASE s = "lst" -> ListResident(st.lst)
      [] s = "dol" -> DoLResident(st.dol)
      [] s = "dod" -> DoDResident(st.dod)

\* The resident records of store s before and after the last call.
Before(s) == ResidentIn(pre, s)
Now(s) == ResidentIn(Stores, s)

\* "fits within", as the specification words it: componentwise <=.
FitsWithin(cost, available) ==
    \A f \in {"ram", "cpu_cores", "gpu_count"} : cost[f] <= available[f]

IsGet == ret.op = "get"
IsAdd == ret.op = "add"

SeqsOf(s) == {s[i].seq : i \in 1 .. Len(s)}

DistinctIds(s) == \A i, j \in 1 .. Len(s) : i # j => s[i].id # s[j].id

\* The fitting records resident in store s when the last get_task was called.
Candidates(s) == {x \in Range(Before(s)) : FitsWithin(x.resources, ret.arg)}

(***************************************************************************)
(* C1: in each store, a record returned by get_task(available) fits        *)
(* available, and no record resident at the call both fits available and   *)
(* has a strictly smaller priority value, whatever the order in which the  *)
(* priority values were first submitted.                                   *)
(***************************************************************************)
C1_LowestFittingPriority ==
    IsGet =>
        \A s \in StoreNames :
            ret.res[s] # None =>
                /\ FitsWithin(ret.res[s].resources, ret.arg)
                /\ \A x \in Candidates(s) : ret.res[s].priority <= x.priority

\* A get_task returned, in every store, a record of priority 1 submitted
\* after a fitting resident record of priority 2.
C1_Witness ==
    /\ IsGet
    /\ \A s \in StoreNames :
          /\ ret.res[s] # None
          /\ ret.res[s].priority = 1
          /\ \E x \in Candidates(s) : x.priority = 2 /\ x.seq < ret.res[s].seq

(***************************************************************************)
(* C2: in each store, the record get_task returns is the one submitted     *)
(* earliest among the resident records of its priority that fit.           *)
(***************************************************************************)
C2_EarliestAmongEqualPriority ==
    IsGet =>
        \A s \in StoreNames :
            ret.res[s] # None =>
                \A x \in Candidates(s) :
                    x.priority = ret.res[s].priority => ret.res[s].seq <= x.seq

(***************************************************************************)
(* C3: in each store, if no resident record fits available (the empty      *)
(* store included), get_task returns None and the storage, its records and *)
(* their order, is the same after the call as before it.                   *)
(***************************************************************************)
C3_NoMatchLeavesStore ==
    IsGet =>
        \A s \in StoreNames :
            Candidates(s) = {} => ret.res[s] = None /\ Stores[s] = pre[s]

\* A get_task on non-empty stores in which nothing fits.
C3_Witness ==
    /\ IsGet
    /\ \A s \in StoreNames :
          /\ Len(Before(s)) >= 2
          /\ Candidates(s) = {}
          /\ ret.res[s] = None

(***************************************************************************)
(* C4, as stated: in each store an identifier, once returned by get_task,  *)
(* is never returned by a later get_task.  It is stated here for the runs  *)
(* in which no add_task reused the identifier of a resident record, so     *)
(* that a violation is owed to get_task and a later add_task alone.        *)
(***************************************************************************)
C4_IdReturnedAtMostOnce ==
    ~dup => \A s \in StoreNames : DistinctIds(returned[s])

(***************************************************************************)
(* C4, amended: in each store the record get_task returns is no longer     *)
(* held by the store when the call returns, and every submission (every    *)
(* add_task call) is returned by at most one get_task call; an identifier  *)
(* is returned again only after it was passed to add_task again.           *)
(***************************************************************************)
C4_SubmissionReturnedAtMostOnce ==
    \A s \in StoreNames :
        /\ \A i, j \in 1 .. Len(returned[s]) :
              i # j => returned[s][i].seq # returned[s][j].seq
        /\ SeqsOf(returned[s]) \cap SeqsOf(Now(s)) = {}
        /\ \A id \in IdsOf(returned[s]) :
              Cardinality({i \in 1 .. Len(returned[s]) : returned[s][i].id = id})
                 <= Cardinality({i \in 1 .. Len(log) : log[i].id = id})

\* An identifier was withdrawn, submitted again while not resident, and
\* withdrawn again, in every store.
C4_Witness ==
    /\ ~dup
    /\ IsGet
    /\ \A s \in StoreNames :
          /\ Len(returned[s]) = 2
          /\ returned[s][1].id = returned[s][2].id
          /\ ret.res[s] = returned[s][2]

(***************************************************************************)
(* C5: every get_task call returns the same result in the three stores:    *)
(* None in all three, or a record with the same identifier in all three.   *)
(***************************************************************************)
SameResult(res) ==
    \/ res.lst = None /\ res.dol = None /\ res.dod = None
    \/ /\ res.lst # None /\ res.dol # None /\ res.dod # None
       /\ res.lst.id = res.dol.id
       /\ res.lst.id = res.dod.id

C5_SameResultInAllStores == IsGet => SameResult(ret.res)

(***************************************************************************)
(* C6: in each store, add_task of a record whose identifier is that of a   *)
(* resident record is rejected and leaves the store unchanged; it never    *)
(* overwrites the resident record nor adds a second one with that id.      *)
(***************************************************************************)
C6_DuplicateIdRejected ==
    IsAdd =>
        \A s \in StoreNames :
            ret.arg.id \in IdsOf(Before(s)) => Stores[s] = pre[s]

(***************************************************************************)
(* C7: in every reachable state of each store, the resident records are    *)
(* exactly the records submitted and not yet returned by get_task, and     *)
(* their identifiers are pairwise distinct.                                *)
(***************************************************************************)
C7_ResidentIsSubmittedMinusReturned ==
    \A s \in StoreNames :
        /\ DistinctIds(Now(s))
        /\ Range(Now(s)) = Range(log) \ Range(returned[s])

(***************************************************************************)
(* C8: in each store, every record get_task returns was passed to an       *)
(* earlier add_task and was resident at the call: held by the store, and   *)
(* not returned by an earlier get_task.                                    *)
(***************************************************************************)
ReturnedEarlier(s) == SubSeq(returned[s], 1, Len(returned[s]) - 1)

C8_ReturnedWasSubmittedAndResident ==
    IsGet =>
        \A s \in StoreNames :
            ret.res[s] # None =>
                /\ ret.res[s] \in Range(log)
                /\ ret.res[s] \in Range(Before(s))
                /\ ret.res[s] \notin Range(ReturnedEarlier(s))

\* The second successful get_task of a run, in every store.
C8_Witness ==
    /\ IsGet
    /\ \A s \in StoreNames : ret.res[s] # None /\ Len(returned[s]) = 2

(***************************************************************************)
(* C9: from a store holding N resident records with distinct ids, N        *)
(* consecutive get_task calls with a capacity every resident cost fits     *)
(* return N distinct records in non-decreasing priority value, in          *)
(* submission order within equal priority, and the (N+1)-th returns None.  *)
(* In particular (id=1,pri=2), (id=2,pri=1), (id=3,pri=2) of equal cost    *)
(* come back as id=2, id=1, id=3, None.                                    *)
(***************************************************************************)
IdOrZero(r) == IF r = None THEN 0 ELSE r.id

\* The drain started from stores holding the three records of the scenario.
ScenarioSubmitted ==
    /\ Len(log) = 3
    /\ \A s \in StoreNames : Len(ResidentIn(start, s)) = 3
    /\ [i \in 1 .. 3 |-> log[i].id] = <<1, 2, 3>>
    /\ [i \in 1 .. 3 |-> log[i].priority] = <<2, 1, 2>>
    /\ log[1].resources = log[2].resources
    /\ log[1].resources = log[3].resources

C9_DrainInPriorityThenSubmissionOrder ==
    phase = "drain" =>
        \A s \in StoreNames :
            LET held == ResidentIn(start, s)
                N == Len(held)
                out == [k \in 1 .. Len(outs) |-> outs[k][s]]
            IN  (/\ DistinctIds(held)
                 /\ \A x \in Range(held) : FitsWithin(x.resources, FullRes))
                =>
                /\ \A k \in 1 .. Len(out) :
                      /\ k <= N => out[k] \in Range(held)
                      /\ k = N + 1 => out[k] = None
                /\ \A i, j \in 1 .. Len(out) :
                      (i < j /\ j <= N) =>
                          /\ out[i].id # out[j].id
                          /\ out[i].priority <= out[j].priority
                          /\ out[i].priority = out[j].priority => out[i].seq < out[j].seq
                /\ ScenarioSubmitted =>
                      \A k \in 1 .. Len(out) : IdOrZero(out[k]) = <<2, 1, 3, 0>>[k]

\* The scenario, drained to the end in every store.
C9_Witness ==
    /\ phase = "drain"
    /\ ScenarioSubmitted
    /\ Len(outs) = 4
    /\ \A s \in StoreNames :
          [k \in 1 .. 4 |-> IdOrZero(outs[k][s])] = <<2, 1, 3, 0>>

(***************************************************************************)
(* C10: add_task of a record whose id is not resident makes exactly that   *)
(* record resident (the resident count grows by one) and nothing else:     *)
(* every record resident before stays in its bucket and the order of the   *)
(* records resident before is unchanged.  For the map store, as long as    *)
(* no add_task reused a resident id, there is one bucket per distinct      *)
(* priority submitted and each bucket lists its records in submission      *)
(* order, each under its id.                                               *)
(***************************************************************************)
\* The storage seen as buckets of records; the flat list is one bucket.
BucketsIn(st, s) ==
    CASE s = "lst" -> [k \in {0} |-> st.lst]
      [] s = "dol" -> st.dol
      [] s = "dod" -> [k \in DOMAIN st.dod |-> Values(st.dod[k])]

BucketKey(s, task) == IF s = "lst" THEN 0 ELSE task.priority

Increasing(s) == \A i, j \in 1 .. Len(s) : i < j => s[i].seq < s[j].seq

C10_AddOnlyInserts ==
    /\ IsAdd =>
          \A s \in StoreNames :
              ret.arg.id \notin IdsOf(Before(s)) =>
                  LET old == BucketsIn(pre, s)
                      new == BucketsIn(Stores, s)
                      key == BucketKey(s, ret.arg)
                  IN  /\ Len(Now(s)) = Len(Before(s)) + 1
                      /\ DOMAIN new = DOMAIN old \cup {key}
                      /\ ret.arg \in Range(new[key])
                      /\ \A k \in DOMAIN old :
                            SelectSeq(new[k], LAMBDA x : x # ret.arg) = old[k]
    /\ ~dup =>
          /\ DOMAIN dod = {log[i].priority : i \in 1 .. Len(log)}
          /\ \A p \in DOMAIN dod :
                /\ Increasing(Values(dod[p]))
                /\ \A i \in 1 .. Len(dod[p]) :
                      /\ dod[p][i].value.priority = p
                      /\ dod[p][i].key = dod[p][i].value.id

\* No id was ever reused while resident; a withdrawn record is submitted
\* again while a record of its priority, submitted after it, is resident.
C10_Witness ==
    /\ IsAdd
    /\ ~dup
    /\ \A s \in StoreNames :
          /\ ret.arg.id \notin IdsOf(Before(s))
          /\ ret.arg.id \in IdsOf(returned[s])
          /\ \E x \in Range(Before(s)) : x.priority = ret.arg.priority

(***************************************************************************)
(* SpecLe: Resources.__le__ on its own.  One step draws three Resources    *)
(* values with components in 0 .. MaxRes and evaluates <= on every pair of *)
(* them; ret records the values and the nine results.                      *)
(***************************************************************************)
ResCube == {Res(r, c, g) : r \in 0 .. MaxRes, c \in 0 .. MaxRes, g \in 0 .. MaxRes}

Compare ==
    /\ ret.op = "init"
    /\ \E a \in ResCube, b \in ResCube, c \in ResCube :
          LET x == <<a, b, c>>
          IN  ret' = [op |-> "le", arg |-> x,
                      res |-> [i \in 1 .. 3 |-> [j \in 1 .. 3 |-> Le(x[i], x[j])]]]
    /\ UNCHANGED <<lst, dol, dod, log, returned, pre, dup, phase, start, outs, thr>>

NextLe == Compare

SpecLe == Init /\ [][NextLe]_vars

IsLe == ret.op = "le"

(***************************************************************************)
(* C11: for all Resources A and B, A <= B is true if and only if           *)
(* A.ram <= B.ram and A.cpu_cores <= B.cpu_cores and                       *)
(* A.gpu_count <= B.gpu_count; exceeding in a single component makes it    *)
(* false.                                                                  *)
(***************************************************************************)
C11_LeIsComponentwise ==
    IsLe =>
        \A i, j \in 1 .. 3 :
            LET A == ret.arg[i]
                B == ret.arg[j]
            IN  /\ ret.res[i][j] <=>
                      (A.ram <= B.ram /\ A.cpu_cores <= B.cpu_cores
                          /\ A.gpu_count <= B.gpu_count)
                /\ (A.ram > B.ram \/ A.cpu_cores > B.cpu_cores
                       \/ A.gpu_count > B.gpu_count) => ~ret.res[i][j]

\* A exceeds B in the gpu count alone, and A <= B is false while B <= A is true.
C11_Witness ==
    /\ IsLe
    /\ ret.arg[1].ram = ret.arg[2].ram
    /\ ret.arg[1].cpu_cores = ret.arg[2].cpu_cores
    /\ ret.arg[1].gpu_count > ret.arg[2].gpu_count
    /\ ~ret.res[1][2]
    /\ ret.res[2][1]

(***************************************************************************)
(* C16: Resources.__le__ is a partial order that is not total: A <= A;     *)
(* A <= B and B <= A imply A equals B componentwise; A <= B and B <= C     *)
(* imply A <= C; and some A, B have neither A <= B nor B <= A.             *)
(***************************************************************************)
C16_LeIsPartialOrder ==
    IsLe =>
        \A i, j, k \in 1 .. 3 :
            /\ ret.res[i][i]
            /\ (ret.res[i][j] /\ ret.res[j][i]) => ret.arg[i] = ret.arg[j]
            /\ (ret.res[i][j] /\ ret.res[j][k]) => ret.res[i][k]

\* Two values neither of which is <= the other.
C16_Witness ==
    /\ IsLe
    /\ ~ret.res[1][2]
    /\ ~ret.res[2][1]

(***************************************************************************)
(* C12: in each store, when get_task returns a record, exactly that record *)
(* stops being resident: the resident count drops by one, every other      *)
(* record stays, and the order of the remaining records, in the flat list  *)
(* and in each bucket, is unchanged.                                       *)
(***************************************************************************)
C12_GetRemovesExactlyOne ==
    IsGet =>
        \A s \in StoreNames :
            ret.res[s] # None =>
                LET old == BucketsIn(pre, s)
                    new == BucketsIn(Stores, s)
                IN  /\ Len(Now(s)) = Len(Before(s)) - 1
                    /\ ret.res[s] \notin Range(Now(s))
                    /\ DOMAIN new = DOMAIN old
                    /\ \A k \in DOMAIN old :
                          new[k] = SelectSeq(old[k], LAMBDA x : x # ret.res[s])

\* No id was reused; of two resident records of one priority the second
\* submitted is the one that fits: it is returned and the first stays.
C12_Witness ==
    /\ IsGet
    /\ ~dup
    /\ Len(pre.lst) = 2
    /\ ret.res.lst = pre.lst[2]
    /\ pre.lst[1].priority = pre.lst[2].priority
    /\ \A s \in StoreNames :
          /\ ret.res[s] # None
          /\ Now(s) = <<pre.lst[1]>>

(***************************************************************************)
(* C13: in each store, get_task returns None only if no resident record    *)
(* fits: when some resident record fits, a record is returned, even when   *)
(* every bucket of lower priority value is non-empty and holds only        *)
(* records that do not fit, and even when buckets emptied by earlier       *)
(* withdrawals are still there.                                            *)
(***************************************************************************)
C13_NoneOnlyIfNothingFits ==
    IsGet =>
        \A s \in StoreNames : Candidates(s) # {} => ret.res[s] # None

\* The only fitting record has priority 2, and the bucket of priority 1 holds
\* a record that does not fit.
C13_Witness ==
    /\ IsGet
    /\ \A s \in StoreNames :
          /\ ret.res[s] # None
          /\ ret.res[s].priority = 2
          /\ \E x \in Range(Before(s)) :
                x.priority = 1 /\ ~FitsWithin(x.resources, ret.arg)

InitConc == InitStores /\ \E atomic \in BOOLEAN : thr = IdleThreads(atomic)

MidCall(t) == thr.call[t].pc \in {"sort", "remove"}

ConcSubmit ==
    /\ \A t \in Threads : thr.call[t].pc = "idle"
    /\ Submit

\* lines 175-176: filtered_tasks = list(filter(condition, self.storage))
FilterStep(t) ==
    /\ thr.call[t].pc = "idle"
    /\ thr.atomic => \A u \in Threads \ {t} : ~MidCall(u)
    /\ \E available \in AvailRes :
          thr' = [thr EXCEPT !.call[t] =
                     [pc |-> "sort", available |-> available,
                      filtered |-> FilterFits(lst, available), task |-> None]]
    /\ UNCHANGED <<lst, dol, dod, log, returned, ret, pre, dup, phase, start, outs>>

\* line 180: filtered_tasks.sort(key=attrgetter('priority'))
SortStep(t) ==
    /\ thr.call[t].pc = "sort"
    /\ thr' = [thr EXCEPT !.call[t].pc = "remove",
                          !.call[t].filtered = SortByPriority(@)]
    /\ UNCHANGED <<lst, dol, dod, log, returned, ret, pre, dup, phase, start, outs>>

\* lines 181-184: the first candidate is removed from the storage and
\* returned; list.remove raises ValueError when no element equals it.
RemoveStep(t) ==
    /\ thr.call[t].pc = "remove"
    /\ LET filtered_tasks == thr.call[t].filtered
       IN  IF Len(filtered_tasks) > 0
           THEN LET task_to_return == filtered_tasks[1]
                IN  IF \E i \in 1 .. Len(lst) : TaskEq(lst[i], task_to_return)
                    THEN /\ lst' = ListRemove(lst, task_to_return)
                         /\ returned' = [returned EXCEPT !.lst = Append(@, task_to_return)]
                         /\ thr' = [thr EXCEPT !.call[t].pc = "returned",
                                               !.call[t].task = task_to_return]
                    ELSE /\ thr' = [thr EXCEPT !.call[t].pc = "raised",
                                               !.call[t].task = task_to_return]
                         /\ UNCHANGED <<lst, returned>>
           ELSE /\ thr' = [thr EXCEPT !.call[t].pc = "returned"]
                /\ UNCHANGED <<lst, returned>>
    /\ UNCHANGED <<dol, dod, log, ret, pre, dup, phase, start, outs>>

NextConc ==
    \/ ConcSubmit
    \/ \E t \in Threads : FilterStep(t)
    \/ \E t \in Threads : SortStep(t)
    \/ \E t \in Threads : RemoveStep(t)

SpecConc == InitConc /\ [][NextConc]_vars

(***************************************************************************)
(* C15: the store is not safe under concurrent use without external        *)
(* synchronization.  When every get_task runs as one atomic step, no two   *)
(* calls select the same resident record and no removal fails.  When the   *)
(* steps of two calls interleave, a state is reachable in which both calls *)
(* selected the same record (C15_Witness).                                 *)
(***************************************************************************)
SameSelection(t, u) ==
    /\ thr.call[t].task # None
    /\ thr.call[t].task = thr.call[u].task

C15_AtomicCallsNeverShare ==
    thr.atomic =>
        /\ \A t \in Threads : thr.call[t].pc # "raised"
        /\ \A t, u \in Threads : t # u => ~SameSelection(t, u)

\* The calls interleaved: both selected the same record, one call returned it
\* and the removal of the other failed.
C15_Witness ==
    /\ ~thr.atomic
    /\ SameSelection(1, 2)
    /\ thr.call[1].pc = "returned"
    /\ thr.call[2].pc = "raised"

(***************************************************************************)
(* C17: as long as no add_task used an id resident at that moment          *)
(* (submitting a withdrawn record again is allowed), the three stores are  *)
(* state-equivalent after every call: they hold the same resident ids, and *)
(* the buckets of either bucketed store, end to end in ascending priority  *)
(* order, are the flat list stably sorted by priority.                     *)
(***************************************************************************)
C17_StoresEquivalent ==
    ~dup =>
        /\ IdsOf(DoLResident(dol)) = IdsOf(ListResident(lst))
        /\ IdsOf(DoDResident(dod)) = IdsOf(ListResident(lst))
        /\ DoLResident(dol) = SortByPriority(lst)
        /\ DoDResident(dod) = SortByPriority(lst)

\* A withdrawn record was submitted again, and the list holds a record of
\* priority 2 ahead of one of priority 1.
C17_Witness ==
    /\ ~dup
    /\ IsAdd
    /\ ret.arg.id \in IdsOf(returned.lst)
    /\ Len(lst) = 2
    /\ lst[1].priority = 2
    /\ lst[2].priority = 1

(***************************************************************************)
(* C18: add_task of a record whose id is resident.  The model has no       *)
(* failing add_task: none of the three raises.  In TaskQueue_dict_of_dicts *)
(* a record whose id and priority are those of a resident record replaces  *)
(* that entry in place (the count does not grow, the keys of the bucket    *)
(* keep their order); a record whose id is resident under another priority *)
(* only leaves two resident records with that id in two buckets.           *)
(* TaskQueue_list and TaskQueue_dict_of_lists keep both records.           *)
(***************************************************************************)
KeysIn(d) == [i \in 1 .. Len(d) |-> d[i].key]

SameSlotTaken(task) ==
    /\ task.priority \in DOMAIN pre.dod
    /\ task.id \in DictKeys(pre.dod[task.priority])

C18_ResidentIdAccepted ==
    IsAdd =>
        LET task == ret.arg
            p == task.priority
        IN  /\ SameSlotTaken(task) =>
                  /\ Len(Now("dod")) = Len(Before("dod"))
                  /\ DOMAIN dod = DOMAIN pre.dod
                  /\ KeysIn(dod[p]) = KeysIn(pre.dod[p])
                  /\ \A i \in 1 .. Len(dod[p]) :
                        dod[p][i].value =
                           IF dod[p][i].key = task.id THEN task ELSE pre.dod[p][i].value
                  /\ \A k \in DOMAIN dod \ {p} : dod[k] = pre.dod[k]
            /\ (task.id \in IdsOf(Before("dod")) /\ ~SameSlotTaken(task)) =>
                  /\ Len(Now("dod")) = Len(Before("dod")) + 1
                  /\ Range(Now("dod")) = Range(Before("dod")) \cup {task}
                  /\ \E x \in Range(Now("dod")) : x.id = task.id /\ x.priority # p
            /\ task.id \in IdsOf(Before("lst")) => lst = Append(pre.lst, task)
            /\ task.id \in IdsOf(Before("dol")) =>
                  /\ DOMAIN dol = DOMAIN pre.dol \cup {p}
                  /\ dol[p] = Append(IF p \in DOMAIN pre.dol THEN pre.dol[p] ELSE <<>>, task)
                  /\ \A k \in DOMAIN pre.dol \ {p} : dol[k] = pre.dol[k]

\* The first of two entries of a bucket of the map store is replaced; the two
\* other stores hold three records.
C18_Witness ==
    /\ IsAdd
    /\ SameSlotTaken(ret.arg)
    /\ Len(pre.dod[ret.arg.priority]) = 2
    /\ pre.dod[ret.arg.priority][1].key = ret.arg.id
    /\ dod[ret.arg.priority][1].value = ret.arg
    /\ Len(Now("dod")) = 2
    /\ Len(Now("lst")) = 3
    /\ Len(Now("dol")) = 3

(***************************************************************************)
(* C19: in every reachable state of a bucketed store every record in the   *)
(* bucket keyed p has priority p, and in TaskQueue_dict_of_dicts every     *)
(* entry of a bucket is keyed by the id of the record it holds.            *)
(***************************************************************************)
C19_BucketsKeyedByPriorityAndId ==
    /\ \A p \in DOMAIN dol : \A x \in Range(dol[p]) : x.priority = p
    /\ \A p \in DOMAIN dod :
          \A e \in Range(dod[p]) : e.value.priority = p /\ e.key = e.value.id

\* After a get_task that returned a record, both bucketed stores still hold
\* records of priority 1 and of priority 2.
C19_Witness ==
    /\ IsGet
    /\ ret.res.dol # None
    /\ ret.res.dod # None
    /\ \A p \in {1, 2} :
          /\ p \in DOMAIN dol /\ dol[p] # <<>>
          /\ p \in DOMAIN dod /\ dod[p] # <<>>

(***************************************************************************)
(* C20: in both bucketed stores the set of bucket keys only grows.         *)
(* get_task creates no bucket and deletes none, so a bucket whose last     *)
(* record was withdrawn stays as an empty bucket; add_task creates at most *)
(* the bucket of the new record's priority.  Hence the keys are always the *)
(* priorities submitted so far.                                            *)
(***************************************************************************)
C20_BucketKeysOnlyGrow ==
    \A s \in {"dol", "dod"} :
        /\ DOMAIN pre[s] \subseteq DOMAIN Stores[s]
        /\ IsGet => DOMAIN Stores[s] = DOMAIN pre[s]
        /\ IsAdd => DOMAIN Stores[s] = DOMAIN pre[s] \cup {ret.arg.priority}
        /\ DOMAIN Stores[s] = {log[i].priority : i \in 1 .. Len(log)}

\* get_task withdrew the last record of a bucket, which stays, empty, next
\* to a bucket that holds a record.
C20_Witness ==
    /\ IsGet
    /\ \A s \in {"dol", "dod"} :
          /\ ret.res[s] # None
          /\ Stores[s][ret.res[s].priority] = <<>>
          /\ \E k \in DOMAIN Stores[s] : Stores[s][k] # <<>>

====
